---- MODULE Spec2Model ----
(***************************************************************************)
(* Oracle data aggregation and reputation subsystem of EcoChain:           *)
(*   ecochain/oracles/oracle_network.py     (OracleNetwork)                *)
(*   ecochain/oracles/reputation_system.py  (ReputationSystem)             *)
(*   ecochain/oracles/data_provider.py      (DataProvider)                 *)
(*                                                                         *)
(* Units.  Reputation scores and deltas are fixed-point numbers counted in *)
(* hundredths of a point (50.0 is 5000).  Accuracy samples handed to       *)
(* record_accuracy are counted in hundredths (1.0 is 100).  Time is        *)
(* counted in whole days, the unit of the decay exponent.  Aggregated      *)
(* numeric results are exact fractions n/d in lowest terms.  Timestamps    *)
(* that no operation reads back (creation_time, the timestamp of a request *)
(* or response, a provider's last_updated) are left out.                   *)
(***************************************************************************)
EXTENDS Integers, Sequences, FiniteSets, TLC

\* ------------------------------------------------------------------------
\* Bounds of the model
\* ------------------------------------------------------------------------
MaxTime == 2
MaxAggregations == 2
MaxRepSteps == 6
MaxHistorySize == 2
MaxAccuracyHistory == 5
MaxCalls == 2

\* ------------------------------------------------------------------------
\* Program constants
\* ------------------------------------------------------------------------
min_score == 0
max_score == 10000
default_score == 5000
DecayNum == 995
DecayDen == 1000
default_max_history == 100
default_max_accuracy_history == 100

ProviderIds == {"p1", "p2", "p3"}
DataTypes == {"carbon_intensity", "energy_mix"}

VARIABLES
    now,                 \* time.time(), in days
    steps,               \* number of calls made so far (reputation system on its own)
    auto_finalize,       \* OracleNetwork.auto_finalize  (config)
    aggregation_method,  \* config 'aggregation_method'
    max_history,         \* ReputationSystem config 'max_history_size'
    max_accuracy_history,\* ReputationSystem config 'max_accuracy_history'
    chain_adapters,      \* OracleNetwork.chain_adapters: the chain names it has an adapter for
    on_chain_contracts,  \* OracleNetwork.on_chain_contracts: the chain names with a contract
    data_providers,      \* OracleNetwork.data_providers: registered ids, insertion order
    providers,           \* the DataProvider objects, by provider_id
    entities,            \* ReputationSystem.entities: entity_id -> EntityRecord
    requests,            \* OracleNetwork.requests: request_id -> DataRequest
    responses,           \* OracleNetwork.responses: request_id -> list of DataResponse
    aggregations,        \* per request: how often aggregate-and-update-reputations ran
    threads,             \* concurrent submit_response calls: position and locals
    op,                  \* the last operation and its arguments
    ret                  \* what the last operation returned

vars == <<now, steps, auto_finalize, aggregation_method, max_history,
          max_accuracy_history, chain_adapters, on_chain_contracts, data_providers, providers, entities,
          requests, responses, aggregations, threads, op, ret>>

\* ------------------------------------------------------------------------
\* Arithmetic helpers
\* ------------------------------------------------------------------------
Abs(x) == IF x < 0 THEN -x ELSE x

Min(a, b) == IF b < a THEN b ELSE a

Max(a, b) == IF b > a THEN b ELSE a

RECURSIVE Gcd(_, _)
Gcd(a, b) == IF b = 0 THEN a ELSE Gcd(b, a % b)

RECURSIVE SumSeq(_)
SumSeq(s) == IF s = <<>> THEN 0 ELSE Head(s) + SumSeq(Tail(s))

ISqrt(q) == CHOOSE r \in 0..1200 : r * r <= q /\ (r + 1) * (r + 1) > q

\* lst[-n:]  (with n = 0 Python's lst[-0:] is the whole list)
LastN(s, n) == IF n = 0 \/ Len(s) <= n THEN s ELSE SubSeq(s, Len(s) - n + 1, Len(s))

\* ------------------------------------------------------------------------
\* ReputationSystem
\* ------------------------------------------------------------------------
NoScore == -1000000

\* max(self.min_score, min(self.max_score, score))
ClampScoreNoCeiling(x) == Max(min_score, x)

ClampScore(x) == Max(min_score, Min(max_score, x))

\* time_decay_factor ** days * score, rounded down to the score unit each day
RECURSIVE TimeDecay(_, _)
TimeDecay(score, days) ==
    IF days <= 0 THEN score
    ELSE TimeDecay((score * DecayNum) \div DecayDen, days - 1)

EntityRecord(score) ==
    [score |-> score, history |-> <<>>, accuracy_history |-> <<>>,
     last_updated |-> now]

has_entity(E, entity_id) == entity_id \in DOMAIN E

add_entity(E, entity_id, initial_score) ==
    IF entity_id \in DOMAIN E THEN E
    ELSE LET score == ClampScore(IF initial_score # NoScore THEN initial_score
                                 ELSE default_score)
         IN  [x \in DOMAIN E \cup {entity_id} |->
                 IF x = entity_id THEN EntityRecord(score) ELSE E[x]]

get_score(E, entity_id) ==
    IF entity_id \notin DOMAIN E THEN default_score ELSE E[entity_id].score

update_score(E, entity_id, delta, reason) ==
    LET E1 == IF entity_id \notin DOMAIN E THEN add_entity(E, entity_id, NoScore) ELSE E
        record == E1[entity_id]
        old_score == record.score
        days_since_update == now - record.last_updated
        decayed == IF days_since_update > 0
                   THEN TimeDecay(record.score, days_since_update)
                   ELSE record.score
        new_score == ClampScore(decayed + delta)
        history_entry == [timestamp |-> now, old_score |-> old_score,
                          delta |-> delta, new_score |-> new_score,
                          reason |-> reason]
        appended == Append(record.history, history_entry)
        history == IF Len(appended) > max_history
                   THEN LastN(appended, max_history) ELSE appended
    IN  [E1 EXCEPT ![entity_id] =
            [score |-> new_score, history |-> history,
             accuracy_history |-> record.accuracy_history,
             last_updated |-> now]]

\* 100 * (consistency - 0.5) * 2 * consistency_weight for the last five samples,
\* consistency = 1 - 2 * stdev(recent): the sample deviation of five values x is
\* sqrt(sum((5x - S)^2)) / 10 with S their sum
ConsistencyDelta(recent) ==
    LET S == SumSeq(recent)
        Q == SumSeq([i \in 1..Len(recent) |-> (5 * recent[i] - S) * (5 * recent[i] - S)])
    IN  100 - (4 * ISqrt(Q)) \div 10

record_accuracy(E, entity_id, accuracy) ==
    LET E1 == IF entity_id \notin DOMAIN E THEN add_entity(E, entity_id, NoScore) ELSE E
        record == E1[entity_id]
        appended == Append(record.accuracy_history, accuracy)
        accuracy_history == IF Len(appended) > max_accuracy_history
                            THEN LastN(appended, max_accuracy_history) ELSE appended
        accuracy_delta == (accuracy - 50) * 4
        delta == IF Len(accuracy_history) >= 5
                 THEN accuracy_delta + ConsistencyDelta(LastN(accuracy_history, 5))
                 ELSE accuracy_delta
        E2 == [E1 EXCEPT ![entity_id].accuracy_history = accuracy_history]
    IN  update_score(E2, entity_id, delta, "accuracy")

remove_entity(E, entity_id) == [x \in DOMAIN E \ {entity_id} |-> E[x]]

\* decay_scores without `record.last_updated = current_time`
decay_scores_keeping_last_updated(E) ==
    [x \in DOMAIN E |->
        LET record == E[x]
            days_since_update == now - record.last_updated
        IN  IF days_since_update > 0
            THEN [record EXCEPT
                    !.score = ClampScore(TimeDecay(record.score, days_since_update))]
            ELSE record]

decay_scores(E) ==
    [x \in DOMAIN E |->
        LET record == E[x]
            days_since_update == now - record.last_updated
        IN  IF days_since_update > 0
            THEN [record EXCEPT
                    !.score = ClampScore(TimeDecay(record.score, days_since_update)),
                    !.last_updated = now]
            ELSE record]

\* ------------------------------------------------------------------------
\* Response payloads and results
\* ------------------------------------------------------------------------
\* a number (int or float) is the exact fraction n/d, d > 0, in lowest terms
Rat(n, d) ==
    LET g == Gcd(Abs(n), Abs(d))
        sgn == IF d < 0 THEN -1 ELSE 1
    IN  [kind |-> "num", n |-> sgn * (n \div g), d |-> sgn * (d \div g)]

Num(v) == [kind |-> "num", n |-> v, d |-> 1]

Str(s) == [kind |-> "str", s |-> s]

\* a dict: m is a function from its keys to numbers and strings
Map(m) == [kind |-> "map", m |-> m]

None == [kind |-> "none"]

IsNum(x) == x.kind = "num"

RatLess(a, b) == a.n * b.d < b.n * a.d

\* key in s, for a str s: among the strings of the model no string is a
\* proper substring of another
StrContains(s, key) == s = key

\* ------------------------------------------------------------------------
\* Aggregation methods  (OracleNetwork.aggregation_methods)
\* ------------------------------------------------------------------------
AggregationMethods == {"weighted_mean", "mean", "median", "mode", "trimmed_mean"}

Ok(result) == [ok |-> TRUE, result |-> result, error |-> ""]

Raised(error) == [ok |-> FALSE, result |-> None, error |-> error]

AllNum(values) == \A i \in 1..Len(values) : IsNum(values[i])

\* sum of numbers whose denominators are 1 (provider payloads)
SumInts(values) == SumSeq([i \in 1..Len(values) |-> values[i].n])

RECURSIVE Insert(_, _)
Insert(x, sorted) ==
    IF sorted = <<>> THEN <<x>>
    ELSE IF RatLess(x, Head(sorted)) THEN <<x>> \o sorted
    ELSE <<Head(sorted)>> \o Insert(x, Tail(sorted))

RECURSIVE Sorted(_)
Sorted(values) == IF values = <<>> THEN <<>> ELSE Insert(Head(values), Sorted(Tail(values)))

Count(values, x) == Cardinality({i \in 1..Len(values) : values[i] = x})

\* statistics.mean
mean(values) ==
    IF values = <<>> THEN Raised("mean requires at least one data point")
    ELSE IF ~AllNum(values) THEN Raised("TypeError")
    ELSE Ok(Rat(SumInts(values), Len(values)))

\* statistics.median
median(values) ==
    IF values = <<>> THEN Raised("no median for empty data")
    ELSE IF ~AllNum(values) /\ Len(values) > 1 THEN Raised("TypeError")
    ELSE LET s == Sorted(values)
             n == Len(s)
         IN  IF n % 2 = 1 THEN Ok(s[(n + 1) \div 2])
             ELSE IF ~AllNum(values) THEN Raised("TypeError")
             ELSE Ok(Rat(s[n \div 2].n + s[n \div 2 + 1].n, 2))

\* statistics.mode: the first encountered of the most common values
mode(values) ==
    IF values = <<>> THEN Raised("no mode for empty data")
    ELSE IF \E i \in 1..Len(values) : values[i].kind = "map" THEN Raised("TypeError")
    ELSE LET best == CHOOSE i \in 1..Len(values) :
                        /\ \A j \in 1..Len(values) :
                              Count(values, values[j]) <= Count(values, values[i])
                        /\ \A j \in 1..(i - 1) :
                              Count(values, values[j]) < Count(values, values[i])
         IN  Ok(values[best])

\* lambda values: statistics.mean(sorted(values)[1:-1] if len(values) > 3 else values)
trimmed_mean(values) ==
    IF Len(values) > 3
    THEN IF ~AllNum(values) THEN Raised("TypeError")
         ELSE mean(SubSeq(Sorted(values), 2, Len(values) - 1))
    ELSE mean(values)

_weighted_mean(values, weights) ==
    IF values = <<>> THEN Ok(Num(0))
    ELSE IF weights = <<>> \/ Len(weights) # Len(values) THEN mean(values)
    ELSE LET total_weight == SumSeq(weights)
         IN  IF total_weight = 0 THEN mean(values)
             ELSE IF ~AllNum(values) THEN Raised("TypeError")
             ELSE Ok(Rat(SumSeq([i \in 1..Len(values) |-> values[i].n * weights[i]]),
                         total_weight))

Aggregate(method, values, weights) ==
    CASE method = "weighted_mean" -> _weighted_mean(values, weights)
      [] method = "mean" -> mean(values)
      [] method = "median" -> median(values)
      [] method = "mode" -> mode(values)
      [] method = "trimmed_mean" -> trimmed_mean(values)
      [] OTHER -> _weighted_mean(values, weights)

\* ------------------------------------------------------------------------
\* OracleNetwork: the state the handlers work on
\* ------------------------------------------------------------------------
\* st = [requests, responses, providers, entities, aggregations]
State ==
    [requests |-> requests, responses |-> responses, providers |-> providers,
     entities |-> entities, aggregations |-> aggregations]

Ret(success, error, result) == [success |-> success, error |-> error, result |-> result]

DataRequest(data_type, deadline, min_providers, min_reputation) ==
    [data_type |-> data_type, deadline |-> deadline,
     min_providers |-> min_providers, min_reputation |-> min_reputation,
     status |-> "PENDING", result |-> None]

DataResponse(provider_id, data) ==
    [provider_id |-> provider_id, data |-> data,
     status |-> "SUBMITTED", verification_result |-> FALSE]

_verify_response(response) ==
    [response EXCEPT !.status = "VERIFIED", !.verification_result = TRUE]

\* provider_id in self.data_providers
RegisteredAlways(provider_id) == TRUE

Registered(provider_id) ==
    \E i \in 1..Len(data_providers) : data_providers[i] = provider_id

\* the score change _update_reputations applies for one response; 0: no update_score call
\* accuracy = 1 - min(1, |data - result| / |result|), with |data - result| / |result|
\* = |data.n * result.d - result.n * data.d| / |result.n * data.d|
ReputationDeltaExactOnly(data, result) ==
    IF data.n * result.d = result.n * data.d THEN 200 ELSE -100

ReputationDelta(data, result) ==
    LET err == Abs(data.n * result.d - result.n * data.d)
        mag == Abs(result.n * data.d)
    IN  IF 20 * err < mag THEN 200           \* accuracy > 0.95
        ELSE IF 10 * err < mag THEN 100      \* accuracy > 0.9
        ELSE IF 5 * err < mag THEN 50        \* accuracy > 0.8
        ELSE IF 5 * err > 2 * mag THEN -100  \* accuracy < 0.6
        ELSE 0                               \* (accuracy < 0.4 is never reached)

\* if isinstance(data, (int, float)) and result != 0
HasAccuracyAnyResult(data, result) == IsNum(data)

HasAccuracy(data, result) == IsNum(data) /\ ~(IsNum(result) /\ result.n = 0)

\* _update_reputations: [entities, raised]
RECURSIVE _update_reputations(_, _, _)
_update_reputations(E, valid_responses, result) ==
    IF valid_responses = <<>> THEN [entities |-> E, raised |-> FALSE]
    ELSE LET response == Head(valid_responses)
             data == response.data
         IN  IF HasAccuracy(data, result)
             THEN IF ~IsNum(result)
                  THEN [entities |-> E, raised |-> TRUE]   \* abs(data - result): TypeError
                  ELSE LET delta == ReputationDelta(data, result)
                           E1 == IF delta # 0
                                 THEN update_score(E, response.provider_id, delta, "none")
                                 ELSE E
                       IN  _update_reputations(E1, Tail(valid_responses), result)
             ELSE _update_reputations(E, Tail(valid_responses), result)

\* the dict branch of finalize_request, one key: [ok, value]
\* pick settles max(set(values), key=values.count) among equally common values
MergeKey(valid_responses, key, pick) ==
    LET bad == \E i \in 1..Len(valid_responses) :
                  LET d == valid_responses[i].data
                  IN  \/ d.kind \in {"num", "none"}             \* key in 5: TypeError
                      \/ d.kind = "str" /\ StrContains(d.s, key) \* "..".get: AttributeError
        having == SelectSeq(valid_responses,
                            LAMBDA r : r.data.kind = "map" /\ key \in DOMAIN r.data.m)
        values == [i \in 1..Len(having) |-> having[i].data.m[key]]
        top == {v \in {values[i] : i \in 1..Len(values)} :
                  \A j \in 1..Len(values) : Count(values, values[j]) <= Count(values, v)}
    IN  IF bad THEN Raised("TypeError")
        ELSE IF AllNum(values) THEN Ok(Rat(SumInts(values), Len(values)))
        ELSE Ok(IF pick \in top THEN pick ELSE CHOOSE v \in top : TRUE)

\* len(responses) < request.min_providers
NotEnoughOffByOne(count, min_providers) == count + 1 < min_providers

NotEnough(count, min_providers) == count < min_providers

ValidResponses(resps) ==
    SelectSeq(resps, LAMBDA r : r.status = "VERIFIED" /\ r.verification_result)

\* the aggregation step of finalize_request: [ok, result, error]
ComputeResult(E, valid_responses, pick) ==
    IF valid_responses = <<>> THEN Raised("list index out of range")
    ELSE IF valid_responses[1].data.kind = "num"
    THEN LET values == [i \in 1..Len(valid_responses) |-> valid_responses[i].data]
             weights == [i \in 1..Len(valid_responses) |->
                            get_score(E, valid_responses[i].provider_id)]
         IN  Aggregate(aggregation_method, values, weights)
    ELSE IF valid_responses[1].data.kind = "map"
    THEN LET keys == DOMAIN valid_responses[1].data.m
             merged == [key \in keys |-> MergeKey(valid_responses, key, pick)]
         IN  IF \E key \in keys : ~merged[key].ok
             THEN Raised("TypeError")
             ELSE Ok(Map([key \in keys |-> merged[key].result]))
    ELSE Raised("Unsupported data type")

\* request.result = result; request.status = "FINALIZED"
SetResult(st, request_id, result) ==
    [st EXCEPT !.requests[request_id].result = result,
               !.requests[request_id].status = "FINALIZED",
               !.aggregations[request_id] = @ + 1]

\* self._update_reputations(valid_responses, result), then return  (rep is what
\* _update_reputations left, st1 the state with the result already set)
Reputed(st1, rep, result) ==
    IF rep.raised
    THEN [st |-> st1, ret |-> Ret(FALSE, "TypeError", None)]
    ELSE [st |-> [st1 EXCEPT !.entities = rep.entities], ret |-> Ret(TRUE, "", result)]

\* finalize_request with a reward of +1 for the first provider of a merged dict
CommitRewardingMerge(st, request_id, valid_responses, computed) ==
    IF ~computed.ok
    THEN [st |-> st, ret |-> Ret(FALSE, computed.error, None)]
    ELSE IF valid_responses[1].data.kind = "num"
    THEN Reputed(SetResult(st, request_id, computed.result),
                 _update_reputations(st.entities, valid_responses, computed.result),
                 computed.result)
    ELSE [st |-> [SetResult(st, request_id, computed.result) EXCEPT
                    !.entities = update_score(st.entities, valid_responses[1].provider_id,
                                              100, "none")],
          ret |-> Ret(TRUE, "", computed.result)]

\* the try block of finalize_request, computed being the aggregation's outcome
Commit(st, request_id, valid_responses, computed) ==
    IF ~computed.ok
    THEN [st |-> st, ret |-> Ret(FALSE, computed.error, None)]
    ELSE IF valid_responses[1].data.kind = "num"
    THEN Reputed(SetResult(st, request_id, computed.result),
                 _update_reputations(st.entities, valid_responses, computed.result),
                 computed.result)
    ELSE [st |-> SetResult(st, request_id, computed.result),
          ret |-> Ret(TRUE, "", computed.result)]

finalize_request(st, request_id, pick) ==
    IF request_id \notin DOMAIN st.requests
    THEN [st |-> st, ret |-> Ret(FALSE, "Request not found", None)]
    ELSE IF NotEnough(Len(st.responses[request_id]),
                      st.requests[request_id].min_providers)
    THEN [st |-> st, ret |-> Ret(FALSE, "Not enough responses", None)]
    ELSE IF NotEnough(Len(ValidResponses(st.responses[request_id])),
                      st.requests[request_id].min_providers)
    THEN [st |-> st, ret |-> Ret(FALSE, "Not enough valid responses", None)]
    ELSE Commit(st, request_id, ValidResponses(st.responses[request_id]),
                ComputeResult(st.entities, ValidResponses(st.responses[request_id]),
                              pick))

\* the request is still open  (request.status != "PENDING" rejects)
IsOpenAlways(request) == TRUE

IsOpen(request) == request.status = "PENDING"

\* request.deadline and time.time() > request.deadline
DeadlinePassed(request) == request.deadline # 0 /\ now > request.deadline

\* any(response.provider_id == provider_id for response in self.responses[request_id])
AlreadyRespondedNever(resps, provider_id) == FALSE

AlreadyResponded(resps, provider_id) ==
    \E i \in 1..Len(resps) : resps[i].provider_id = provider_id

\* len(self.responses[request_id]) >= request.min_providers
QuorumReachedLate(count, min_providers) == count > min_providers

QuorumReached(count, min_providers) == count >= min_providers

submit_response(st, request_id, provider_id, data, pick) ==
    IF request_id \notin DOMAIN st.requests THEN [st |-> st, ret |-> FALSE]
    ELSE IF ~Registered(provider_id) THEN [st |-> st, ret |-> FALSE]
    ELSE
    LET request == st.requests[request_id] IN
    IF ~IsOpen(request) THEN [st |-> st, ret |-> FALSE]
    ELSE IF DeadlinePassed(request)
    THEN [st |-> [st EXCEPT !.requests[request_id].status = "EXPIRED"], ret |-> FALSE]
    ELSE IF AlreadyResponded(st.responses[request_id], provider_id)
    THEN [st |-> st, ret |-> FALSE]
    ELSE
    LET response == _verify_response(DataResponse(provider_id, data))
        st1 == [st EXCEPT
                  !.responses[request_id] = Append(@, response),
                  !.providers[provider_id].response_count = @ + 1]
        st2 == IF /\ auto_finalize
                  /\ QuorumReached(Len(st1.responses[request_id]), request.min_providers)
               THEN finalize_request(st1, request_id, pick).st
               ELSE st1
    IN  [st |-> st2, ret |-> TRUE]

\* ------------------------------------------------------------------------
\* DataProvider
\* ------------------------------------------------------------------------
EmptyFn == [x \in {} |-> 0]

Raise == [kind |-> "raise"]

SupportedDataTypes(provider_id) ==
    IF provider_id = "p1" THEN {"carbon_intensity", "energy_mix"} ELSE {"carbon_intensity"}

DataProvider(provider_id) ==
    [supported_data_types |-> SupportedDataTypes(provider_id), active |-> TRUE,
     response_count |-> 0, submit_callback |-> FALSE,
     pending_requests |-> EmptyFn]

SetPending(st, provider_id, request_id, status) ==
    [st EXCEPT !.providers[provider_id].pending_requests =
        [x \in DOMAIN @ \cup {request_id} |-> IF x = request_id THEN status ELSE @[x]]]

\* DataProvider._submit_response: pushes the data through the submit callback
\* if success: self.response_count += 1   (r is what the callback returned)
CountSuccess(r, provider_id) ==
    IF r.ret
    THEN [r.st EXCEPT !.providers[provider_id].response_count = @ + 1]
    ELSE r.st

_submit_response(st, provider_id, request_id, data, pick) ==
    IF st.providers[provider_id].submit_callback
    THEN CountSuccess(submit_response(st, request_id, provider_id, data, pick),
                      provider_id)
    ELSE st

\* _process_request with the failure handed on as the provider's data
_process_request_submitting_failure(st, provider_id, request_id, outcome, pick) ==
    IF request_id \notin DOMAIN st.providers[provider_id].pending_requests THEN st
    ELSE IF outcome = Raise
    THEN _submit_response(SetPending(st, provider_id, request_id, "FAILED"),
                          provider_id, request_id, None, pick)
    ELSE _submit_response(SetPending(st, provider_id, request_id, "PROCESSED"),
                          provider_id, request_id, outcome, pick)

\* DataProvider._process_request: outcome is what fetch_data does, data or Raise
_process_request(st, provider_id, request_id, outcome, pick) ==
    IF request_id \notin DOMAIN st.providers[provider_id].pending_requests THEN st
    ELSE IF outcome = Raise
    THEN SetPending(st, provider_id, request_id, "FAILED")
    ELSE _submit_response(SetPending(st, provider_id, request_id, "PROCESSED"),
                          provider_id, request_id, outcome, pick)

\* DataProvider.notify_request: [st, ret]
notify_request(st, provider_id, request_id, data_type, outcome, pick) ==
    IF data_type \notin st.providers[provider_id].supported_data_types
    THEN [st |-> st, ret |-> FALSE]
    ELSE IF ~st.providers[provider_id].active
    THEN [st |-> st, ret |-> FALSE]
    ELSE [st |-> _process_request(SetPending(st, provider_id, request_id, "PENDING"),
                                  provider_id, request_id, outcome, pick),
          ret |-> TRUE]

\* ------------------------------------------------------------------------
\* OracleNetwork: requests
\* ------------------------------------------------------------------------
EligibleAnyReputation(st, provider_id, request) ==
    request.data_type \in st.providers[provider_id].supported_data_types

Eligible(st, provider_id, request) ==
    /\ request.data_type \in st.providers[provider_id].supported_data_types
    /\ get_score(st.entities, provider_id) >= request.min_reputation

\* _notify_providers, from the i-th registered provider on: [st, notified]
\* fetch[p] is what p's fetch_data does when p is asked
RECURSIVE _notify_providers(_, _, _, _, _, _)
_notify_providers(st, request_id, i, fetch, pick, notified) ==
    IF i > Len(data_providers) THEN [st |-> st, notified |-> notified]
    ELSE LET provider_id == data_providers[i]
             request == st.requests[request_id]
         IN  IF ~Eligible(st, provider_id, request)
             THEN _notify_providers(st, request_id, i + 1, fetch, pick, notified)
             ELSE _notify_providers(
                     notify_request(st, provider_id, request_id, request.data_type,
                                    fetch[provider_id], pick).st,
                     request_id, i + 1, fetch, pick, notified \cup {provider_id})

\* submit_request: [st, ret, notified], ret the new request id
\* self.requests[request_id] = request; self.responses[request_id] = []
StoreRequestClearingResponses(st, request) ==
    [st EXCEPT !.requests = Append(@, request),
               !.responses = Append([r \in DOMAIN @ |-> <<>>], <<>>),
               !.aggregations = Append(@, 0)]

StoreRequest(st, request) ==
    [st EXCEPT !.requests = Append(@, request),
               !.responses = Append(@, <<>>),
               !.aggregations = Append(@, 0)]

\* return request_id   (n is what _notify_providers left)
Submitted(n, request_id) == [st |-> n.st, ret |-> request_id, notified |-> n.notified]

submit_request(st, data_type, deadline, min_providers, min_reputation, fetch, pick) ==
    Submitted(_notify_providers(
                  StoreRequest(st, DataRequest(data_type, deadline, min_providers,
                                               min_reputation)),
                  Len(st.requests) + 1, 1, fetch, pick, {}),
              Len(st.requests) + 1)

get_request_status(st, request_id) ==
    IF request_id \notin DOMAIN st.requests
    THEN [success |-> FALSE, error |-> "Request not found", status |-> "",
          response_count |-> 0, result |-> None]
    ELSE [success |-> TRUE, error |-> "", status |-> st.requests[request_id].status,
          response_count |-> Len(st.responses[request_id]),
          result |-> st.requests[request_id].result]

\* ------------------------------------------------------------------------
\* Inputs of the operations
\* ------------------------------------------------------------------------
Callers == {"p1", "p2"}

DataValues == {Num(100), Num(300), Str("n/a")}

FetchOutcomes == {Num(100)}

TieBreaks == {Str("n/a")}

Deadlines == {0, 1}

MinProviders == {1, 2}

MinReputations == {5000}

RequestTypes == {"carbon_intensity"}

\* the ids uuid4 hands out, in order; AskedIds adds an id no request ever has
RequestIds == {1}

AskedIds == {1, 2}

\* ------------------------------------------------------------------------
\* Operations of the network, one call each
\* ------------------------------------------------------------------------
Op(name, request_id, provider_id) ==
    [name |-> name, request_id |-> request_id, provider_id |-> provider_id]

Result(success, error, result, status) ==
    [success |-> success, error |-> error, result |-> result, status |-> status]

\* the configuration and the chain connections: what no call on the ledger changes
Settings == <<auto_finalize, aggregation_method, max_history, max_accuracy_history>>

Config == <<Settings, chain_adapters, on_chain_contracts>>

Store(st) ==
    /\ requests' = st.requests
    /\ responses' = st.responses
    /\ providers' = st.providers
    /\ entities' = st.entities
    /\ aggregations' = st.aggregations

RegisterProvider(provider_id) ==
    /\ op' = Op("register_provider", 0, provider_id)
    /\ IF Registered(provider_id)
       THEN /\ ret' = Result(FALSE, "already registered", None, "")
            /\ UNCHANGED <<data_providers, entities>>
       ELSE /\ data_providers' = Append(data_providers, provider_id)
            /\ entities' = IF ~has_entity(entities, provider_id)
                           THEN add_entity(entities, provider_id, NoScore)
                           ELSE entities
            /\ ret' = Result(TRUE, "", None, "")
    /\ UNCHANGED <<now, steps, Config, providers, requests, responses, aggregations,
                   threads>>

\* remove_provider taking the reputation record along
RemoveProviderWithReputation(provider_id) ==
    /\ op' = Op("remove_provider", 0, provider_id)
    /\ IF ~Registered(provider_id)
       THEN /\ ret' = Result(FALSE, "not registered", None, "")
            /\ UNCHANGED <<data_providers, entities>>
       ELSE /\ data_providers' = SelectSeq(data_providers, LAMBDA x : x # provider_id)
            /\ entities' = remove_entity(entities, provider_id)
            /\ ret' = Result(TRUE, "", None, "")
    /\ UNCHANGED <<now, steps, Config, providers, requests, responses,
                   aggregations, threads>>

RemoveProvider(provider_id) ==
    /\ op' = Op("remove_provider", 0, provider_id)
    /\ IF ~Registered(provider_id)
       THEN /\ ret' = Result(FALSE, "not registered", None, "")
            /\ UNCHANGED data_providers
       ELSE /\ data_providers' = SelectSeq(data_providers, LAMBDA x : x # provider_id)
            /\ ret' = Result(TRUE, "", None, "")
    /\ UNCHANGED <<now, steps, Config, providers, entities, requests, responses,
                   aggregations, threads>>

SetSubmitCallback(provider_id) ==
    /\ op' = Op("set_submit_callback", 0, provider_id)
    /\ providers' = [providers EXCEPT ![provider_id].submit_callback = TRUE]
    /\ ret' = Result(TRUE, "", None, "")
    /\ UNCHANGED <<now, steps, Config, data_providers, entities, requests, responses,
                   aggregations, threads>>

SubmitRequest(data_type, deadline, min_providers, min_reputation, fetch, pick) ==
    /\ Len(requests) + 1 \in RequestIds
    /\ op' = Op("submit_request", Len(requests) + 1, "")
    /\ LET r == submit_request(State, data_type, deadline, min_providers,
                               min_reputation, fetch, pick)
       IN  /\ Store(r.st)
           /\ ret' = Result(TRUE, "", None, "")
    /\ UNCHANGED <<now, steps, Config, data_providers, threads>>

SubmitResponse(request_id, provider_id, data, pick) ==
    /\ op' = Op("submit_response", request_id, provider_id)
    /\ LET r == submit_response(State, request_id, provider_id, data, pick)
       IN  /\ Store(r.st)
           /\ ret' = Result(r.ret, "", None, "")
    /\ UNCHANGED <<now, steps, Config, data_providers, threads>>

FinalizeRequest(request_id, pick) ==
    /\ request_id \in DOMAIN requests => aggregations[request_id] < MaxAggregations
    /\ op' = Op("finalize_request", request_id, "")
    /\ LET r == finalize_request(State, request_id, pick)
       IN  /\ Store(r.st)
           /\ ret' = Result(r.ret.success, r.ret.error, r.ret.result, "")
    /\ UNCHANGED <<now, steps, Config, data_providers, threads>>

GetRequestStatus(request_id) ==
    /\ op' = Op("get_request_status", request_id, "")
    /\ LET r == get_request_status(State, request_id)
       IN  ret' = Result(r.success, r.error, r.result, r.status)
    /\ UNCHANGED <<now, steps, Config, data_providers, providers, entities, requests,
                   responses, aggregations, threads>>

\* time passes
Tick ==
    /\ now < MaxTime
    /\ now' = now + 1
    /\ UNCHANGED <<steps, Config, data_providers, providers, entities, requests,
                   responses, aggregations, threads, op, ret>>

\* ------------------------------------------------------------------------
\* The network, one call at a time
\* ------------------------------------------------------------------------
Constructed ==
    /\ now = 1
    /\ steps = 0
    /\ chain_adapters = {}
    /\ on_chain_contracts = {}
    /\ data_providers = <<>>
    /\ providers = [p \in ProviderIds |-> DataProvider(p)]
    /\ entities = EmptyFn
    /\ requests = <<>>
    /\ responses = <<>>
    /\ aggregations = <<>>
    /\ threads = EmptyFn
    /\ op = Op("__init__", 0, "")
    /\ ret = Result(TRUE, "", None, "")

Init ==
    /\ Constructed
    /\ auto_finalize \in BOOLEAN
    /\ aggregation_method = "weighted_mean"
    /\ max_history = default_max_history
    /\ max_accuracy_history = default_max_accuracy_history

Next ==
    \/ \E p \in Callers : RegisterProvider(p)
    \/ \E dt \in RequestTypes, dl \in Deadlines, mp \in MinProviders,
          mr \in MinReputations, fetch \in [ProviderIds -> FetchOutcomes],
          pick \in TieBreaks :
          SubmitRequest(dt, dl, mp, mr, fetch, pick)
    \/ \E r \in AskedIds, p \in Callers, d \in DataValues, pick \in TieBreaks :
          SubmitResponse(r, p, d, pick)
    \/ \E r \in AskedIds, pick \in TieBreaks : FinalizeRequest(r, pick)
    \/ \E r \in AskedIds : GetRequestStatus(r)
    \/ Tick

Spec == Init /\ [][Next]_vars

\* ------------------------------------------------------------------------
\* Properties of the request ledger
\* ------------------------------------------------------------------------
\* a step that is the call `name` (Tick, the only other step, moves `now`)
CallOf(name) == now' = now /\ op'.name = name

HasResponded(request_id, provider_id) ==
    \E i \in 1..Len(responses[request_id]) :
        responses[request_id][i].provider_id = provider_id

AllScalar(request_id) ==
    \A i \in 1..Len(responses[request_id]) : IsNum(responses[request_id][i].data)

\* C1: a finalize_request call that directly follows a successful finalize_request
\* of the same request returns the same result, and changes no provider's score.
C1_IdempotentFinalize ==
    [][(/\ op.name = "finalize_request" /\ ret.success
        /\ CallOf("finalize_request") /\ op'.request_id = op.request_id)
       => /\ ret'.success
          /\ ret'.result = ret.result
          /\ \A p \in ProviderIds : get_score(entities', p) = get_score(entities, p)]_vars

\* C2: no request is ever removed, and a request's status changes only from
\* PENDING, to EXPIRED or to FINALIZED: EXPIRED and FINALIZED are terminal.
C2_TerminalStates ==
    [][\A r \in DOMAIN requests :
          /\ r \in DOMAIN requests'
          /\ requests'[r].status # requests[r].status
                => /\ requests[r].status = "PENDING"
                   /\ requests'[r].status \in {"EXPIRED", "FINALIZED"}]_vars

\* C3: once the deadline of a request has passed, every submit_response for it
\* returns false and stores nothing, and get_request_status reports EXPIRED,
\* whether or not a response was ever submitted.
C3_DeadlineExpiry ==
    [][\A r \in DOMAIN requests :
          (DeadlinePassed(requests[r]) /\ op'.request_id = r)
             => /\ CallOf("submit_response")
                   => ~ret'.success /\ responses'[r] = responses[r]
                /\ CallOf("get_request_status")
                   => ret'.status = "EXPIRED"]_vars

NoDuplicateResponses ==
    \A r \in DOMAIN responses : \A i, j \in 1..Len(responses[r]) :
        responses[r][i].provider_id = responses[r][j].provider_id => i = j

\* C4: a submit_response from a provider that has already responded to the
\* request returns false and changes neither the stored responses nor the
\* request's result; no request ever holds two responses of one provider.
C4_DuplicateRejection ==
    [][/\ NoDuplicateResponses'
       /\ \A r \in DOMAIN requests :
            (CallOf("submit_response") /\ op'.request_id = r
             /\ HasResponded(r, op'.provider_id))
               => /\ ~ret'.success
                  /\ responses' = responses
                  /\ requests'[r].result = requests[r].result]_vars

\* a duplicate was turned away from a request that was open, before its deadline
C4_Witness ==
    /\ op.name = "submit_response" /\ ~ret.success
    /\ op.request_id \in DOMAIN requests
    /\ requests[op.request_id].status = "PENDING"
    /\ ~DeadlinePassed(requests[op.request_id])
    /\ Registered(op.provider_id)
    /\ HasResponded(op.request_id, op.provider_id)

\* C5: finalize_request on a request with fewer than min_providers verified
\* responses fails with a not-enough-responses error and leaves the request as
\* it was; with min_providers responses, all scalar numbers, it succeeds; every
\* FINALIZED request has at least min_providers verified responses.
C5_QuorumGating ==
    [][/\ \A r \in DOMAIN requests :
            (CallOf("finalize_request") /\ op'.request_id = r)
               => /\ Len(ValidResponses(responses[r])) < requests[r].min_providers
                     => /\ ~ret'.success
                        /\ ret'.error \in {"Not enough responses",
                                           "Not enough valid responses"}
                        /\ requests'[r] = requests[r]
                  /\ (/\ Len(ValidResponses(responses[r])) >= requests[r].min_providers
                      /\ AllScalar(r))
                     => /\ ret'.success
                        /\ requests'[r].status = "FINALIZED"
       /\ \A r \in DOMAIN requests' :
            requests'[r].status = "FINALIZED"
               => Len(ValidResponses(responses'[r])) >= requests'[r].min_providers]_vars

\* finalize was refused one response short of a quorum of two
C5_Witness ==
    /\ op.name = "finalize_request" /\ ~ret.success
    /\ ret.error = "Not enough responses"
    /\ op.request_id \in DOMAIN requests
    /\ requests[op.request_id].min_providers = 2
    /\ Len(responses[op.request_id]) = 1
    /\ requests[op.request_id].status = "PENDING"

\* C8: a submit_response that returns false leaves the responses, the providers
\* and the reputation records as they were, and the requests too, except that a
\* PENDING request whose deadline has passed becomes EXPIRED; an unknown
\* request, a request that is not PENDING and a provider that has already
\* responded are all turned away.
C8_RejectedSubmitMutatesNothing ==
    [][CallOf("submit_response") =>
        LET r == op'.request_id
            p == op'.provider_id
        IN  /\ ~ret'.success =>
                 /\ responses' = responses
                 /\ providers' = providers
                 /\ entities' = entities
                 /\ data_providers' = data_providers
                 /\ \/ requests' = requests
                    \/ /\ r \in DOMAIN requests
                       /\ requests[r].status = "PENDING"
                       /\ DeadlinePassed(requests[r])
                       /\ requests' = [requests EXCEPT ![r].status = "EXPIRED"]
            /\ r \notin DOMAIN requests => ~ret'.success /\ requests' = requests
            /\ (r \in DOMAIN requests /\ requests[r].status # "PENDING")
                 => ~ret'.success /\ requests' = requests
            /\ (r \in DOMAIN requests /\ HasResponded(r, p))
                 => /\ ~ret'.success
                    /\ ~DeadlinePassed(requests[r]) => requests' = requests]_vars

\* a response was turned away from a request that is already FINALIZED
C8_Witness ==
    /\ op.name = "submit_response" /\ ~ret.success
    /\ op.request_id \in DOMAIN requests
    /\ Registered(op.provider_id)
    /\ requests[op.request_id].status = "FINALIZED"
    /\ ~HasResponded(op.request_id, op.provider_id)

\* accuracy = 1 - min(1, |data - result| / |result|), in hundredths
Accuracy(data, result) ==
    LET err == Abs(data.n * result.d - result.n * data.d)
        mag == Abs(result.n * data.d)
    IN  ((mag - Min(mag, err)) * 100) \div mag

\* record_accuracy for each numeric response in turn
RECURSIVE RecordAccuracies(_, _, _)
RecordAccuracies(E, resps, result) ==
    IF resps = <<>> THEN E
    ELSE IF IsNum(Head(resps).data)
    THEN RecordAccuracies(
            record_accuracy(E, Head(resps).provider_id, Accuracy(Head(resps).data, result)),
            Tail(resps), result)
    ELSE RecordAccuracies(E, Tail(resps), result)

\* C10: a finalize_request that succeeds with a non-zero numeric result feeds
\* each numeric response's accuracy to record_accuracy: every responding
\* provider's accuracy history gains one sample and its score moves by the
\* delta record_accuracy computes.
C10_AccuracyFeedback ==
    [][\A r \in DOMAIN requests :
          (/\ CallOf("finalize_request") /\ op'.request_id = r
           /\ ret'.success /\ IsNum(ret'.result) /\ ret'.result.n # 0)
             => entities' = RecordAccuracies(entities, ValidResponses(responses[r]),
                                             ret'.result)]_vars

\* ------------------------------------------------------------------------
\* The reputation system on its own, one call at a time
\* ------------------------------------------------------------------------
EntityIds == {"p1"}

\* initial_score: None, or a score on either side of [min_score, max_score]
InitialScores == {NoScore, -5000, 15000}

Deltas == {5000, -5000}

Accuracies == {0, 100}

RepCall(name, entity_id) ==
    /\ steps < MaxRepSteps
    /\ steps' = steps + 1
    /\ op' = Op(name, 0, entity_id)
    /\ UNCHANGED <<now, Config, data_providers, providers, requests, responses,
                   aggregations, threads>>

AddEntity(entity_id, initial_score) ==
    /\ RepCall("add_entity", entity_id)
    /\ entities' = add_entity(entities, entity_id, initial_score)
    /\ ret' = Result(~has_entity(entities, entity_id), "", None, "")

UpdateScore(entity_id, delta) ==
    /\ RepCall("update_score", entity_id)
    /\ entities' = update_score(entities, entity_id, delta, "none")
    /\ ret' = Result(TRUE, "", Num(entities'[entity_id].score), "")

RecordAccuracy(entity_id, accuracy) ==
    /\ RepCall("record_accuracy", entity_id)
    /\ entities' = record_accuracy(entities, entity_id, accuracy)
    /\ ret' = Result(TRUE, "", Num(entities'[entity_id].score), "")

DecayScores ==
    /\ RepCall("decay_scores", "")
    /\ entities' = decay_scores(entities)
    /\ ret' = Result(TRUE, "", None, "")

InitRep ==
    /\ Constructed
    /\ auto_finalize = FALSE
    /\ aggregation_method = "weighted_mean"
    /\ max_history = MaxHistorySize
    /\ max_accuracy_history = MaxAccuracyHistory

NextRep ==
    \/ \E e \in EntityIds, s \in InitialScores : AddEntity(e, s)
    \/ \E e \in EntityIds, d \in Deltas : UpdateScore(e, d)
    \/ \E e \in EntityIds, a \in Accuracies : RecordAccuracy(e, a)
    \/ DecayScores
    \/ Tick

SpecRep == InitRep /\ [][NextRep]_vars

\* C9: every entity's score lies between min_score and max_score, whatever
\* add_entity, update_score, record_accuracy and decay_scores calls were made.
C9_ReputationClamping ==
    \A e \in DOMAIN entities :
        min_score <= entities[e].score /\ entities[e].score <= max_score

\* an update_score whose delta would have carried the score past max_score
C9_Witness ==
    /\ op.name = "update_score"
    /\ op.provider_id \in DOMAIN entities
    /\ LET record == entities[op.provider_id]
           last == record.history[Len(record.history)]
       IN  /\ record.score = max_score
           /\ last.old_score = max_score
           /\ last.delta > 0

\* ------------------------------------------------------------------------
\* submit_response called from several threads: the network takes no lock, so
\* the calls interleave between the statements of submit_response and of the
\* finalize_request it runs
\* ------------------------------------------------------------------------
Threads == {"t1", "t2"}

ConcValues == {Num(100), Num(300)}

\* a thread outside submit_response; inside, its arguments and locals:
\* index is where its response sits in the list, valid_responses and result
\* are the locals of finalize_request
Idle ==
    [pc |-> "idle", request_id |-> 0, provider_id |-> "", data |-> None,
     index |-> 0, valid_responses |-> <<>>, result |-> None]

Goto(t, pc) ==
    /\ threads' = [threads EXCEPT ![t].pc = pc]
    /\ UNCHANGED <<op, ret>>

Return(t, value) ==
    /\ threads' = [threads EXCEPT ![t] = Idle]
    /\ op' = Op("submit_response", threads[t].request_id, threads[t].provider_id)
    /\ ret' = Result(value, "", None, "")

BeginSubmitResponse(t, request_id, provider_id, data) ==
    /\ threads[t].pc = "idle"
    /\ steps < MaxCalls
    /\ steps' = steps + 1
    /\ threads' = [threads EXCEPT ![t] =
                      [Idle EXCEPT !.pc = "check_request", !.request_id = request_id,
                                   !.provider_id = provider_id, !.data = data]]
    /\ UNCHANGED <<now, Config, data_providers, providers, entities, requests,
                   responses, aggregations, op, ret>>

\* the request exists, the provider is registered, the request is open
CheckRequest(t) ==
    LET r == threads[t].request_id
        p == threads[t].provider_id
    IN  /\ threads[t].pc = "check_request"
        /\ IF r \notin DOMAIN requests \/ ~Registered(p)
           THEN Return(t, FALSE) /\ UNCHANGED requests
           ELSE IF ~IsOpen(requests[r])
           THEN Return(t, FALSE) /\ UNCHANGED requests
           ELSE IF DeadlinePassed(requests[r])
           THEN /\ Return(t, FALSE)
                /\ requests' = [requests EXCEPT ![r].status = "EXPIRED"]
           ELSE Goto(t, "check_duplicate") /\ UNCHANGED requests
        /\ UNCHANGED <<now, steps, Config, data_providers, providers, entities,
                       responses, aggregations>>

CheckDuplicate(t) ==
    /\ threads[t].pc = "check_duplicate"
    /\ IF AlreadyResponded(responses[threads[t].request_id], threads[t].provider_id)
       THEN Return(t, FALSE)
       ELSE Goto(t, "append")
    /\ UNCHANGED <<now, steps, Config, data_providers, providers, entities, requests,
                   responses, aggregations>>

AppendResponse(t) ==
    LET r == threads[t].request_id
    IN  /\ threads[t].pc = "append"
        /\ responses' = [responses EXCEPT ![r] =
                            Append(@, DataResponse(threads[t].provider_id, threads[t].data))]
        /\ threads' = [threads EXCEPT ![t].pc = "count",
                                      ![t].index = Len(responses[r]) + 1]
        /\ UNCHANGED <<now, steps, Config, data_providers, providers, entities,
                       requests, aggregations, op, ret>>

CountResponse(t) ==
    /\ threads[t].pc = "count"
    /\ providers' = [providers EXCEPT ![threads[t].provider_id].response_count = @ + 1]
    /\ Goto(t, "verify")
    /\ UNCHANGED <<now, steps, Config, data_providers, entities, requests, responses,
                   aggregations>>

VerifyResponse(t) ==
    /\ threads[t].pc = "verify"
    /\ responses' = [responses EXCEPT ![threads[t].request_id][threads[t].index] =
                        _verify_response(@)]
    /\ Goto(t, "check_quorum")
    /\ UNCHANGED <<now, steps, Config, data_providers, providers, entities, requests,
                   aggregations>>

CheckQuorum(t) ==
    LET r == threads[t].request_id
    IN  /\ threads[t].pc = "check_quorum"
        /\ IF auto_finalize /\ Len(responses[r]) >= requests[r].min_providers
           THEN Goto(t, "finalize_read")
           ELSE Return(t, TRUE)
        /\ UNCHANGED <<now, steps, Config, data_providers, providers, entities,
                       requests, responses, aggregations>>

\* finalize_request up to the try block: the quorum checks, valid_responses
FinalizeRead(t) ==
    LET r == threads[t].request_id
        valid_responses == ValidResponses(responses[r])
    IN  /\ threads[t].pc = "finalize_read"
        /\ IF \/ NotEnough(Len(responses[r]), requests[r].min_providers)
              \/ NotEnough(Len(valid_responses), requests[r].min_providers)
           THEN Return(t, TRUE)
           ELSE /\ threads' = [threads EXCEPT ![t].pc = "finalize_aggregate",
                                              ![t].valid_responses = valid_responses]
                /\ UNCHANGED <<op, ret>>
        /\ UNCHANGED <<now, steps, Config, data_providers, providers, entities,
                       requests, responses, aggregations>>

\* values, weights and the aggregated result
FinalizeAggregate(t, pick) ==
    LET computed == ComputeResult(entities, threads[t].valid_responses, pick)
    IN  /\ threads[t].pc = "finalize_aggregate"
        /\ IF ~computed.ok
           THEN Return(t, TRUE)
           ELSE /\ threads' = [threads EXCEPT ![t].pc = "finalize_commit",
                                              ![t].result = computed.result]
                /\ UNCHANGED <<op, ret>>
        /\ UNCHANGED <<now, steps, Config, data_providers, providers, entities,
                       requests, responses, aggregations>>

\* request.result = result; request.status = "FINALIZED"
FinalizeCommit(t) ==
    LET st == SetResult(State, threads[t].request_id, threads[t].result)
    IN  /\ threads[t].pc = "finalize_commit"
        /\ requests' = st.requests
        /\ aggregations' = st.aggregations
        /\ IF IsNum(threads[t].valid_responses[1].data)
           THEN Goto(t, "finalize_reputation")
           ELSE Return(t, TRUE)
        /\ UNCHANGED <<now, steps, Config, data_providers, providers, entities,
                       responses>>

FinalizeReputation(t) ==
    /\ threads[t].pc = "finalize_reputation"
    /\ entities' = _update_reputations(entities, threads[t].valid_responses,
                                       threads[t].result).entities
    /\ Return(t, TRUE)
    /\ UNCHANGED <<now, steps, Config, data_providers, providers, requests, responses,
                   aggregations>>

InitConc ==
    /\ now = 1
    /\ steps = 0
    /\ chain_adapters = {}
    /\ on_chain_contracts = {}
    /\ data_providers = <<>>
    /\ providers = [p \in ProviderIds |-> DataProvider(p)]
    /\ entities = EmptyFn
    /\ requests = <<>>
    /\ responses = <<>>
    /\ aggregations = <<>>
    /\ threads = [t \in Threads |-> Idle]
    /\ op = Op("__init__", 0, "")
    /\ ret = Result(TRUE, "", None, "")
    /\ auto_finalize \in BOOLEAN
    /\ aggregation_method = "weighted_mean"
    /\ max_history = default_max_history
    /\ max_accuracy_history = default_max_accuracy_history

NextConc ==
    \/ \E p \in Callers : RegisterProvider(p)
    \/ \E mp \in MinProviders, pick \in TieBreaks :
          SubmitRequest("carbon_intensity", 0, mp, 5000,
                        [p \in ProviderIds |-> Num(100)], pick)
    \/ \E t \in Threads, r \in RequestIds, p \in Callers, d \in ConcValues :
          BeginSubmitResponse(t, r, p, d)
    \/ \E t \in Threads : CheckRequest(t)
    \/ \E t \in Threads : CheckDuplicate(t)
    \/ \E t \in Threads : AppendResponse(t)
    \/ \E t \in Threads : CountResponse(t)
    \/ \E t \in Threads : VerifyResponse(t)
    \/ \E t \in Threads : CheckQuorum(t)
    \/ \E t \in Threads : FinalizeRead(t)
    \/ \E t \in Threads, pick \in TieBreaks : FinalizeAggregate(t, pick)
    \/ \E t \in Threads : FinalizeCommit(t)
    \/ \E t \in Threads : FinalizeReputation(t)

SpecConc == InitConc /\ [][NextConc]_vars

\* C6: when submit_response calls of two providers interleave, the result of a
\* request is aggregated and committed, and reputations updated, at most once.
C6_FinalizeAtMostOnce ==
    \A r \in DOMAIN aggregations :
        (\A i, j \in 1..Len(responses[r]) :
            responses[r][i].provider_id = responses[r][j].provider_id => i = j)
           => aggregations[r] <= 1

\* C7: when two submit_response calls of one provider interleave, the request
\* never holds two responses of that provider.
C7_OneResponsePerProvider ==
    \A r \in DOMAIN responses :
        \A p \in ProviderIds :
            Cardinality({i \in 1..Len(responses[r]) :
                            responses[r][i].provider_id = p}) <= 1

\* ------------------------------------------------------------------------
\* The network with providers that push their data back through the submit
\* callback (cli.py wires network.submit_response into each provider)
\* ------------------------------------------------------------------------
\* what each provider's fetch_data does: all deliver, or p1's raises
NotifyFetches ==
    {[p \in ProviderIds |-> Num(100)],
     [p \in ProviderIds |-> IF p = "p1" THEN Raise ELSE Num(100)]}

NotifyValues == {Num(300)}

NotifyQuorums == {1}

NotifyIds == {1, 2}

\* p1 is wired to the network and answers notifications; p2 submits directly
Wired == {"p1"}

Direct == {"p2"}

NotifyTypes == {"carbon_intensity", "energy_mix"}

NotifyReputations == {5000, 5100}

Deactivatable == {"p2"}

\* the providers _notify_providers called notify_request on
Ids(notified) == [kind |-> "ids", ids |-> notified]

\* DataProvider.deactivate
Deactivate(provider_id) ==
    /\ providers[provider_id].active
    /\ op' = Op("deactivate", 0, provider_id)
    /\ providers' = [providers EXCEPT ![provider_id].active = FALSE]
    /\ ret' = Result(TRUE, "", None, "")
    /\ UNCHANGED <<now, steps, Config, data_providers, entities, requests, responses,
                   aggregations, threads>>

\* r is what submit_request left and returned
Requested(r) ==
    /\ Store(r.st)
    /\ ret' = Result(TRUE, "", Ids(r.notified), "")

SubmitRequestNotify(data_type, min_providers, min_reputation, fetch, pick) ==
    /\ Len(requests) + 1 \in NotifyIds
    /\ op' = Op("submit_request", Len(requests) + 1, "")
    /\ Requested(submit_request(State, data_type, 0, min_providers, min_reputation,
                                fetch, pick))
    /\ UNCHANGED <<now, steps, Config, data_providers, threads>>

WireCallback(provider_id) ==
    /\ ~providers[provider_id].submit_callback
    /\ SetSubmitCallback(provider_id)

NextNotify ==
    \/ \E p \in Wired : WireCallback(p)
    \/ \E p \in Callers : RegisterProvider(p)
    \/ \E p \in Deactivatable : Deactivate(p)
    \/ \E dt \in NotifyTypes, mp \in NotifyQuorums, mr \in NotifyReputations,
          fetch \in NotifyFetches, pick \in TieBreaks :
          SubmitRequestNotify(dt, mp, mr, fetch, pick)
    \/ \E r \in NotifyIds, p \in Direct, d \in NotifyValues, pick \in TieBreaks :
          SubmitResponse(r, p, d, pick)

SpecNotify == Init /\ [][NextNotify]_vars

\* C11: when submit_request returns, the new request is PENDING and has no
\* response yet: no provider's fetch or response happens inside the call.
C11_FireAndForget ==
    [][CallOf("submit_request") =>
          /\ requests'[op'.request_id].status = "PENDING"
          /\ responses'[op'.request_id] = <<>>]_vars

\* C12: submit_request calls notify_request on exactly the registered providers
\* that support the request's data type and whose score is at least its
\* min_reputation; of these, the active ones hold the request afterwards, and
\* no other provider does.
C12_NotificationEligibility ==
    [][CallOf("submit_request") =>
          LET id == op'.request_id
              request == requests'[id]
              eligible == {p \in ProviderIds :
                              /\ \E i \in 1..Len(data_providers) : data_providers[i] = p
                              /\ request.data_type \in providers[p].supported_data_types
                              /\ get_score(entities, p) >= request.min_reputation}
          IN  /\ ret'.result = Ids(eligible)
              /\ \A p \in ProviderIds :
                    id \in DOMAIN providers'[p].pending_requests
                       <=> (p \in eligible /\ providers[p].active)]_vars

\* one registered provider of the data type was notified and another was left
\* out because its score is below the request's min_reputation
C12_Witness ==
    /\ op.name = "submit_request"
    /\ ret.result.kind = "ids"
    /\ ret.result.ids # {}
    /\ \E p \in ProviderIds \ ret.result.ids :
          /\ Registered(p)
          /\ requests[op.request_id].data_type \in providers[p].supported_data_types
          /\ get_score(entities, p) < requests[op.request_id].min_reputation

\* C13: a provider's response_count is the number of responses of its that
\* were accepted, whether submitted directly or through its submit callback.
C13_ResponseCount ==
    \A p \in ProviderIds :
        providers[p].response_count =
            SumSeq([r \in 1..Len(responses) |->
                       Cardinality({i \in 1..Len(responses[r]) :
                                       responses[r][i].provider_id = p})])


\* ------------------------------------------------------------------------
\* Payload shapes: numbers, strings and dicts answered to one request
\* ------------------------------------------------------------------------
\* no key and no string of these payloads is a substring of another
ShapeValues ==
    {Num(100), Str("n/a"), None,
     Map([value |-> Num(1)]),
     Map([value |-> Num(3), unit |-> Str("kg")]),
     Map([value |-> Str("kg")])}

\* what max(set(values), key=values.count) may return among equally common values
ShapePicks == {Num(1), Str("kg")}

NextShape ==
    \/ \E p \in Callers : RegisterProvider(p)
    \/ \E mp \in MinProviders, fetch \in [ProviderIds -> FetchOutcomes],
          pick \in TieBreaks :
          SubmitRequest("carbon_intensity", 0, mp, 0, fetch, pick)
    \/ \E r \in RequestIds, p \in Callers, d \in ShapeValues, pick \in ShapePicks :
          SubmitResponse(r, p, d, pick)
    \/ \E r \in RequestIds, pick \in ShapePicks : FinalizeRequest(r, pick)

SpecShape == Init /\ [][NextShape]_vars

\* C14: a request whose verified responses include a payload that is neither a
\* number nor a dict (a string) is never FINALIZED and keeps a null result, and
\* a finalize_request of it fails and changes no provider's score.
C14_UnsupportedShapes ==
    [][\A r \in DOMAIN requests' :
          (\E i \in 1..Len(ValidResponses(responses'[r])) :
              ValidResponses(responses'[r])[i].data.kind = "str")
          => /\ requests'[r].status # "FINALIZED"
             /\ requests'[r].result = None
             /\ (CallOf("finalize_request") /\ op'.request_id = r)
                => /\ ~ret'.success
                   /\ \A p \in ProviderIds :
                         get_score(entities', p) = get_score(entities, p)]_vars

\* C18: the result of a FINALIZED request whose responses are all dicts has
\* every key that occurs in a response; under a key whose values are all numbers
\* it has their average over the responses that have the key, and otherwise one
\* of the most frequent of those values.
C18_StructuredMerge ==
    \A r \in DOMAIN requests :
       (/\ requests[r].status = "FINALIZED"
        /\ \A i \in 1..Len(responses[r]) : responses[r][i].data.kind = "map")
       => LET resps == responses[r]
              keys == UNION {DOMAIN resps[i].data.m : i \in 1..Len(resps)}
              result == requests[r].result
          IN  /\ result.kind = "map"
              /\ DOMAIN result.m = keys
              /\ \A key \in keys :
                    LET having == {i \in 1..Len(resps) : key \in DOMAIN resps[i].data.m}
                        occurs(v) == Cardinality({i \in having : resps[i].data.m[key] = v})
                    IN  IF \A i \in having : IsNum(resps[i].data.m[key])
                        THEN /\ IsNum(result.m[key])
                             /\ result.m[key].n * Cardinality(having)
                                   = result.m[key].d
                                     * SumSeq([i \in 1..Len(resps) |->
                                                IF i \in having
                                                THEN resps[i].data.m[key].n ELSE 0])
                        ELSE \E i \in having :
                               /\ result.m[key] = resps[i].data.m[key]
                               /\ \A j \in having :
                                     occurs(resps[j].data.m[key])
                                        <= occurs(resps[i].data.m[key])


\* ------------------------------------------------------------------------
\* config['aggregation_method'] = 'mode': three providers, a provider's payload
\* being a number or None
\* ------------------------------------------------------------------------
ModeValues == {Num(100), None}

InitMode ==
    /\ Constructed
    /\ auto_finalize \in BOOLEAN
    /\ aggregation_method = "mode"
    /\ max_history = default_max_history
    /\ max_accuracy_history = default_max_accuracy_history

NextMode ==
    \/ \E p \in ProviderIds : RegisterProvider(p)
    \/ \E fetch \in [ProviderIds -> FetchOutcomes], pick \in TieBreaks :
          SubmitRequest("carbon_intensity", 0, 3, 0, fetch, pick)
    \/ \E r \in RequestIds, p \in ProviderIds, d \in ModeValues, pick \in TieBreaks :
          SubmitResponse(r, p, d, pick)
    \/ \E r \in RequestIds, pick \in TieBreaks : FinalizeRequest(r, pick)

SpecMode == InitMode /\ [][NextMode]_vars

\* C15: the status of a request is PENDING, EXPIRED or FINALIZED, and its result
\* is set (not null) exactly when its status is FINALIZED.
C15_StatusResult ==
    \A r \in DOMAIN requests :
       /\ requests[r].status \in {"PENDING", "EXPIRED", "FINALIZED"}
       /\ requests[r].result # None <=> requests[r].status = "FINALIZED"


ScenarioData == [p \in ProviderIds |->
                   IF p = "p1" THEN Num(280) ELSE IF p = "p2" THEN Num(300) ELSE Num(260)]

\* a longer time without any call, in days
IdleDays == 5

Elapse(days) ==
    /\ now <= MaxTime
    /\ now' = now + days
    /\ UNCHANGED <<steps, Config, data_providers, providers, entities, requests,
                   responses, aggregations, threads, op, ret>>

NextScenario ==
    \/ \E p \in ProviderIds : RegisterProvider(p)
    \/ \E fetch \in [ProviderIds -> FetchOutcomes], pick \in TieBreaks :
          SubmitRequest("carbon_intensity", 0, 3, 0, fetch, pick)
    \/ \E r \in RequestIds, p \in ProviderIds, pick \in TieBreaks :
          SubmitResponse(r, p, ScenarioData[p], pick)
    \/ \E r \in DOMAIN requests, pick \in TieBreaks :   \* the client finalizes once
          /\ requests[r].status = "PENDING"
          /\ FinalizeRequest(r, pick)
    \/ Tick
    \/ Elapse(IdleDays)

SpecScenario == Init /\ [][NextScenario]_vars

\* the step finalizes request r, whose three providers all had reputation 50
ScenarioFinalized(r) ==
    /\ r \in DOMAIN requests
    /\ requests[r].status = "PENDING"
    /\ requests'[r].status = "FINALIZED"
    /\ \A p \in ProviderIds : get_score(entities, p) = 5000

\* C17: when the request answered with 280, 300 and 260 by three providers of
\* reputation 50 is finalized, its result is 280; the provider that answered 280
\* gets +2 and the other two +1 on their decayed scores, and the score of every
\* provider last updated at most 3 days earlier strictly increases.
C17_Scenario ==
    [][\A r \in RequestIds : ScenarioFinalized(r) =>
          /\ requests'[r].result = Num(280)
          /\ \A p \in ProviderIds :
                LET days == now - entities[p].last_updated
                IN  /\ get_score(entities', p)
                          = TimeDecay(5000, days)
                            + (IF ScenarioData[p] = Num(280) THEN 200 ELSE 100)
                    /\ days <= 3 => get_score(entities', p) > get_score(entities, p)]_vars

\* the scenario was finalized a day or more after a registration, every score rose
C17_Witness ==
    /\ 1 \in DOMAIN requests
    /\ requests[1].status = "FINALIZED"
    /\ requests[1].result = Num(280)
    /\ aggregations[1] = 1
    /\ \A p \in ProviderIds : get_score(entities, p) > 5000
    /\ \E p \in ProviderIds : get_score(entities, p) \notin {5100, 5200}

\* C17 as stated: the result is 280 and each provider's score strictly increases,
\* however long ago the provider was registered.
C17_ScoresAlwaysIncrease ==
    [][\A r \in RequestIds : ScenarioFinalized(r) =>
          /\ requests'[r].result = Num(280)
          /\ \A p \in ProviderIds :
                get_score(entities', p) > get_score(entities, p)]_vars


\* ------------------------------------------------------------------------
\* The score history under config['max_history_size']
\* ------------------------------------------------------------------------
HistorySizes == {0, 1, 2}

InitHistory ==
    /\ Constructed
    /\ auto_finalize = FALSE
    /\ aggregation_method = "weighted_mean"
    /\ max_history \in HistorySizes
    /\ max_accuracy_history = MaxAccuracyHistory

NextHistory ==
    \/ \E e \in EntityIds, s \in InitialScores : AddEntity(e, s)
    \/ \E e \in EntityIds, d \in Deltas : UpdateScore(e, d)
    \/ Tick

SpecHistory == InitHistory /\ [][NextHistory]_vars

\* C19: an entity's history never holds more than max_history_size entries, and
\* after an update_score it is the history before the call with the entry of
\* this update appended, cut down to its last max_history_size entries.
C19_BoundedHistory ==
    [][\A e \in DOMAIN entities' :
          /\ Len(entities'[e].history) <= max_history
          /\ (CallOf("update_score") /\ op'.provider_id = e /\ e \in DOMAIN entities)
             => LET old == entities[e].history
                    new == entities'[e].history
                    k == Len(new)
                IN  /\ k = Min(Len(old) + 1, max_history)
                    /\ k >= 1 => /\ new[k].timestamp = now
                                 /\ new[k].old_score = entities[e].score
                                 /\ new[k].new_score = entities'[e].score
                    /\ \A i \in 1..(k - 1) : new[i] = old[Len(old) - (k - 1) + i]]_vars


\* ------------------------------------------------------------------------
\* Decay over days and weeks without updates
\* ------------------------------------------------------------------------
NextDecay ==
    \/ \E e \in EntityIds, s \in InitialScores : AddEntity(e, s)
    \/ \E e \in EntityIds, d \in Deltas : UpdateScore(e, d)
    \/ DecayScores
    \/ Tick
    \/ Elapse(IdleDays)

SpecDecay == InitRep /\ [][NextDecay]_vars

\* C20: decay_scores turns every score into the score decayed over the days since
\* the entity's last update, a strictly smaller one when the score is positive and
\* a day or more has passed, and changes nothing when no time has passed; so an
\* entity's score is always the score its last update_score left, decayed over
\* the days between that update and the last decay, however many decay_scores
\* calls were made in between.
C20_DecayMonotonicity ==
    [][/\ CallOf("decay_scores") =>
            \A e \in DOMAIN entities :
               LET days == now - entities[e].last_updated
               IN  /\ entities'[e].score = TimeDecay(entities[e].score, days)
                   /\ (days > 0 /\ entities[e].score > 0)
                      => entities'[e].score < entities[e].score
                   /\ days <= 0 => entities'[e] = entities[e]
       /\ \A e \in DOMAIN entities' :
             LET record == entities'[e]
             IN  record.history # <<>> =>
                    LET last == record.history[Len(record.history)]
                    IN  record.score
                          = TimeDecay(last.new_score, record.last_updated - last.timestamp)]_vars

\* a score decayed over six days or more since the update that set it
C20_Witness ==
    /\ op.name = "decay_scores"
    /\ \E e \in DOMAIN entities :
          /\ entities[e].history # <<>>
          /\ LET last == entities[e].history[Len(entities[e].history)]
             IN  /\ entities[e].last_updated - last.timestamp >= IdleDays + 1
                 /\ entities[e].last_updated = now
                 /\ entities[e].score < last.new_score


\* ------------------------------------------------------------------------
\* Publishing a result on a chain
\* ------------------------------------------------------------------------
ChainNames == {"ethereum", "polygon"}

\* connect_blockchain: connects is what adapter.connect() returns, has_contract
\* whether a contract_address was passed
ConnectBlockchain(chain_name, connects, has_contract) ==
    /\ op' = Op("connect_blockchain", 0, chain_name)
    /\ chain_adapters' = chain_adapters \cup {chain_name}
    /\ on_chain_contracts' = IF connects /\ has_contract
                             THEN on_chain_contracts \cup {chain_name}
                             ELSE on_chain_contracts
    /\ ret' = Result(connects, "", None, "")
    /\ UNCHANGED <<now, steps, Settings, data_providers, providers, entities, requests,
                   responses, aggregations, threads>>

\* request.status != "FINALIZED" rejects
PublishableAlways(request) == TRUE

Publishable(request) == request.status = "FINALIZED"

publish_result(st, request_id, chain_name) ==
    IF request_id \notin DOMAIN st.requests THEN Ret(FALSE, "Request not found", None)
    ELSE IF ~Publishable(st.requests[request_id])
    THEN Ret(FALSE, "Request not finalized", None)
    ELSE IF chain_name \notin chain_adapters
    THEN Ret(FALSE, "Not connected to blockchain", None)
    ELSE IF chain_name \notin on_chain_contracts
    THEN Ret(FALSE, "No oracle contract address for blockchain", None)
    ELSE Ret(TRUE, "", st.requests[request_id].result)

PublishResult(request_id, chain_name) ==
    /\ op' = Op("publish_result", request_id, chain_name)
    /\ LET r == publish_result(State, request_id, chain_name)
       IN  ret' = Result(r.success, r.error, r.result, "")
    /\ UNCHANGED <<now, steps, Config, data_providers, providers, entities, requests,
                   responses, aggregations, threads>>

NextPublish ==
    \/ RegisterProvider("p1")
    \/ \E dl \in Deadlines, fetch \in [ProviderIds -> FetchOutcomes], pick \in TieBreaks :
          SubmitRequest("carbon_intensity", dl, 1, 0, fetch, pick)
    \/ \E r \in RequestIds, pick \in TieBreaks : SubmitResponse(r, "p1", Num(100), pick)
    \/ \E r \in RequestIds, pick \in TieBreaks : FinalizeRequest(r, pick)
    \/ \E c \in ChainNames, connects \in BOOLEAN, has_contract \in BOOLEAN :
          ConnectBlockchain(c, connects, has_contract)
    \/ \E r \in AskedIds, c \in ChainNames : PublishResult(r, c)
    \/ Tick

SpecPublish == Init /\ [][NextPublish]_vars

\* C21: a publish_result call succeeds only for a request that exists and is
\* FINALIZED, and, whether it succeeds or fails, changes no request, response or
\* reputation record.
C21_PublishAfterFinalize ==
    [][CallOf("publish_result") =>
          /\ ret'.success => /\ op'.request_id \in DOMAIN requests
                             /\ requests[op'.request_id].status = "FINALIZED"
          /\ requests' = requests
          /\ responses' = responses
          /\ entities' = entities]_vars

\* the result of a FINALIZED request was published on a chain with a contract
C21_Witness ==
    /\ op.name = "publish_result" /\ ret.success
    /\ requests[op.request_id].status = "FINALIZED"
    /\ ret.result = requests[op.request_id].result
    /\ op.provider_id \in on_chain_contracts


\* C22: submit_request returns the id of the stored request whatever the
\* providers' fetch_data did; every eligible provider is notified, and each
\* active one has processed the request when submit_request returns: its record
\* is FAILED, with no response of that provider stored or counted, or PROCESSED.
\* A provider's record being FAILED does not keep the network from accepting
\* another registered provider's response to the open request.
C22_FetchFailureIsolated ==
    [][/\ CallOf("submit_request") =>
            LET id == op'.request_id
                eligible == {p \in ProviderIds :
                               /\ Registered(p)
                               /\ requests'[id].data_type \in providers[p].supported_data_types
                               /\ get_score(entities, p) >= requests'[id].min_reputation}
            IN  /\ ret'.success
                /\ DOMAIN requests' = DOMAIN requests \cup {id}
                /\ ret'.result = Ids(eligible)
                /\ \A p \in eligible : providers[p].active =>
                      /\ id \in DOMAIN providers'[p].pending_requests
                      /\ providers'[p].pending_requests[id] \in {"FAILED", "PROCESSED"}
                      /\ providers'[p].pending_requests[id] = "FAILED"
                         => /\ \A i \in 1..Len(responses'[id]) :
                                  responses'[id][i].provider_id # p
                            /\ providers'[p].response_count = providers[p].response_count
       /\ (/\ CallOf("submit_response")
           /\ op'.request_id \in DOMAIN requests
           /\ \E q \in ProviderIds \ {op'.provider_id} :
                 /\ op'.request_id \in DOMAIN providers[q].pending_requests
                 /\ providers[q].pending_requests[op'.request_id] = "FAILED"
           /\ Registered(op'.provider_id)
           /\ requests[op'.request_id].status = "PENDING"
           /\ ~HasResponded(op'.request_id, op'.provider_id))
          => /\ ret'.success
             /\ Len(responses'[op'.request_id]) = Len(responses[op'.request_id]) + 1]_vars

\* the fetch of p1, wired to the network, raised; p2 was notified all the same
C22_Witness ==
    /\ op.name = "submit_request"
    /\ providers["p1"].submit_callback
    /\ op.request_id \in DOMAIN providers["p1"].pending_requests
    /\ providers["p1"].pending_requests[op.request_id] = "FAILED"
    /\ ret.result = Ids({"p1", "p2"})
    /\ op.request_id \in DOMAIN providers["p2"].pending_requests
    /\ providers["p2"].pending_requests[op.request_id] = "PROCESSED"
    /\ data_providers = <<"p1", "p2">>


\* C23: no step removes a request; the requests and the responses always have
\* the same ids; a step leaves the responses of a request as they were or
\* appends to them, so that a stored response keeps its place, its provider_id
\* and its data.
C23_AppendOnlyLedger ==
    [][/\ DOMAIN requests \subseteq DOMAIN requests'
       /\ DOMAIN requests' = DOMAIN responses'
       /\ \A r \in DOMAIN responses :
             /\ Len(responses[r]) <= Len(responses'[r])
             /\ \A i \in 1..Len(responses[r]) :
                   /\ responses'[r][i].provider_id = responses[r][i].provider_id
                   /\ responses'[r][i].data = responses[r][i].data]_vars

\* a second request was stored while the first one keeps its two responses
C23_Witness ==
    /\ op.name = "submit_request"
    /\ Len(requests) = 2
    /\ Len(responses[1]) = 2
    /\ responses[1][1].provider_id # responses[1][2].provider_id


\* ------------------------------------------------------------------------
\* Reputation feedback: two providers whose answers agree more or less
\* ------------------------------------------------------------------------
TierValues == {Num(-100), Num(100), Num(120), Num(140), Num(200), Num(1000)}

NextTiers ==
    \/ \E p \in Callers : RegisterProvider(p)
    \/ \E mp \in MinProviders, fetch \in [ProviderIds -> FetchOutcomes],
          pick \in TieBreaks :
          SubmitRequest("carbon_intensity", 0, mp, 0, fetch, pick)
    \/ \E r \in RequestIds, p \in Callers, d \in TierValues, pick \in TieBreaks :
          SubmitResponse(r, p, d, pick)
    \/ \E r \in RequestIds, pick \in TieBreaks : FinalizeRequest(r, pick)

SpecTiers == Init /\ [][NextTiers]_vars

\* the step aggregates the responses of request r (once more, if it had a result)
Aggregated(r) ==
    /\ r \in DOMAIN requests
    /\ op'.request_id = r
    /\ aggregations'[r] = aggregations[r] + 1

\* C24: when an aggregation of scalar responses gives the result 0, the request
\* is FINALIZED with result 0, a finalize_request call returns success with it,
\* and no reputation record (score, history, last_updated) changes.
C24_ZeroResultGuard ==
    [][\A r \in RequestIds :
          (Aggregated(r) /\ requests'[r].result = Num(0))
          => /\ requests'[r].status = "FINALIZED"
             /\ entities' = entities
             /\ op'.name = "finalize_request" => ret'.success /\ ret'.result = Num(0)]_vars

\* the answers -100 and 100 were aggregated to 0
C24_Witness ==
    /\ op.name \in {"finalize_request", "submit_response"}
    /\ op.request_id \in DOMAIN requests
    /\ requests[op.request_id].status = "FINALIZED"
    /\ requests[op.request_id].result = Num(0)
    /\ Len(responses[op.request_id]) = 2
    /\ \E i \in 1..2 : responses[op.request_id][i].data = Num(100)
    /\ aggregations[op.request_id] = 1

\* C25: the first aggregation of a request changes the score of each provider
\* by the tier of its response's accuracy 1 - min(1, |data - result| / |result|):
\* +2 above 0.95, +1 above 0.9, +0.5 above 0.8, -2 below 0.4, -1 below 0.6,
\* nothing from 0.6 to 0.8.
C25_AccuracyTiers ==
    [][\A r \in RequestIds :
          (Aggregated(r) /\ aggregations[r] = 0 /\ requests'[r].result # Num(0))
          => \A i \in 1..Len(responses[r]) :
                LET data == responses'[r][i].data
                    result == requests'[r].result
                    \* the error |data - result| / |result| as err / mag
                    err == Abs(data.n * result.d - result.n * data.d)
                    mag == Abs(result.n * data.d)
                    tier == IF 20 * err < mag THEN 200
                            ELSE IF 10 * err < mag THEN 100
                            ELSE IF 5 * err < mag THEN 50
                            ELSE IF 5 * err > 3 * mag THEN -200
                            ELSE IF 5 * err > 2 * mag THEN -100
                            ELSE 0
                    p == responses'[r][i].provider_id
                IN  get_score(entities', p) = get_score(entities, p) + tier]_vars


\* ------------------------------------------------------------------------
\* Providers that leave the network and come back
\* ------------------------------------------------------------------------
NextRemoval ==
    \/ \E p \in Callers : RegisterProvider(p)
    \/ \E p \in Callers : RemoveProvider(p)
    \/ \E fetch \in [ProviderIds -> FetchOutcomes], pick \in TieBreaks :
          SubmitRequest("carbon_intensity", 0, 2, 0, fetch, pick)
    \/ \E r \in RequestIds, p \in Callers, d \in {Num(100), Num(120)},
          pick \in TieBreaks :
          SubmitResponse(r, p, d, pick)
    \/ \E r \in RequestIds, pick \in TieBreaks : FinalizeRequest(r, pick)

SpecRemoval == Init /\ [][NextRemoval]_vars

\* C26: a submit_response of a provider that is not registered, never or no
\* longer, returns false and changes no response and no request; remove_provider
\* changes no response and no request either, and a finalize_request of a PENDING
\* request with min_providers responses succeeds whether or not the providers
\* that gave them are still registered.
C26_OnlyRegisteredRespond ==
    [][/\ (/\ CallOf("submit_response")
           /\ \A i \in 1..Len(data_providers) : data_providers[i] # op'.provider_id)
          => /\ ~ret'.success
             /\ responses' = responses
             /\ requests' = requests
       /\ CallOf("remove_provider")
          => /\ responses' = responses
             /\ requests' = requests
       /\ \A r \in DOMAIN requests :
            (/\ CallOf("finalize_request") /\ op'.request_id = r
             /\ requests[r].status = "PENDING"
             /\ Len(responses[r]) >= requests[r].min_providers)
            => /\ ret'.success
               /\ requests'[r].status = "FINALIZED"]_vars

\* a request was finalized on two responses, one of a provider removed since
C26_Witness ==
    /\ op.name = "finalize_request" /\ ret.success
    /\ Len(responses[op.request_id]) = 2
    /\ aggregations[op.request_id] = 1
    /\ \E i \in 1..2 : ~Registered(responses[op.request_id][i].provider_id)

\* C29: remove_provider leaves every reputation record as it was, and
\* register_provider leaves every existing record as it was: a provider that is
\* removed and registered again keeps its score.
C29_ReputationOutlivesRegistration ==
    [][/\ CallOf("remove_provider") => entities' = entities
       /\ CallOf("register_provider")
          => \A p \in DOMAIN entities :
                p \in DOMAIN entities' /\ entities'[p] = entities[p]]_vars

\* a provider whose score had been raised was registered again, and kept it
C29_Witness ==
    /\ op.name = "register_provider" /\ ret.success
    /\ Registered(op.provider_id)
    /\ get_score(entities, op.provider_id) > default_score
    /\ entities[op.provider_id].history # <<>>


\* C27: every accepted submit_response comes from a provider that supports the
\* data type of the request and whose score is at least the request's
\* min_reputation at that moment.
C27_OnlyEligibleContribute ==
    [][(CallOf("submit_response") /\ ret'.success) =>
          LET request == requests[op'.request_id]
              p == op'.provider_id
          IN  /\ request.data_type \in providers[p].supported_data_types
              /\ get_score(entities, p) >= request.min_reputation]_vars


\* C28: with auto_finalize enabled, a request whose responses are all scalar
\* numbers never holds more than max(1, min_providers) responses, and holds
\* exactly min_providers of them once it is FINALIZED.
C28_QuorumCapsResponses ==
    \A r \in DOMAIN requests :
       (auto_finalize /\ AllScalar(r))
       => /\ Len(responses[r]) <= Max(1, requests[r].min_providers)
          /\ requests[r].status = "FINALIZED"
             => Len(responses[r]) = requests[r].min_providers


\* C30: an aggregation of a request whose responses are all dicts leaves every
\* reputation record (score, history, accuracy history) as it was; a
\* finalize_request doing it changes nothing but the status and the result of
\* that request.
C30_MergeLeavesReputation ==
    [][\A r \in RequestIds :
          (/\ Aggregated(r)
           /\ \A i \in 1..Len(responses'[r]) : responses'[r][i].data.kind = "map")
          => /\ entities' = entities
             /\ requests'[r].status = "FINALIZED"
             /\ requests'[r].result.kind = "map"
             /\ op'.name = "finalize_request"
                => /\ responses' = responses
                   /\ providers' = providers
                   /\ data_providers' = data_providers
                   /\ requests' = [requests EXCEPT ![r].status = "FINALIZED",
                                                   ![r].result = requests'[r].result]]_vars

\* finalize_request merged the dicts of two registered providers
C30_Witness ==
    /\ op.name = "finalize_request" /\ ret.success
    /\ ret.result.kind = "map"
    /\ Len(responses[op.request_id]) = 2
    /\ \A i \in 1..2 : responses[op.request_id][i].data.kind = "map"
    /\ \A i \in 1..2 : responses[op.request_id][i].provider_id \in DOMAIN entities
    /\ \A p \in DOMAIN entities : entities[p].history = <<>>

====
